---- MODULE Spec2Model ----
(***************************************************************************)
(* ai-stack-platform: the templates page's deploy flow (handleDeploy), the *)
(* backend endpoints it calls, the persisted schema with its row-level     *)
(* policies, and the deployments page.                                     *)
(***************************************************************************)
EXTENDS Naturals, Sequences, FiniteSets, TLC

(* ------------------------------ bounds -------------------------------- *)

\* handleDeploy invocations started on the page in one behaviour
MaxInvocations == 2
\* rows callers insert directly through the INSERT policies
MaxDirectInserts == 1
\* direct UPDATE statements issued through the UPDATE policy
MaxDirectUpdates == 1
\* status updates driven by the infrastructure provider's polling or webhook
MaxStatusUpdates == 1
\* rows the update recorder appends to update_history
MaxHistory == 2

(* ------------------------------ values -------------------------------- *)

NULL == "NULL"

Callers == {"alice", "bob"}

\* keys of the catalog returned by GET /templates
TemplateIds == {"notary-assistant", "doc-processor"}

\* keys of Template.pricing tried (of basic, pro, enterprise)
Tiers == {"basic"}

\* keys of Template.pricing
CatalogTiers == {"basic", "pro", "enterprise"}

\* prices, in minor currency units, an entry of the catalog may carry
Prices == {1, 99, 2900}

\* the mappings GET /templates may answer with: templateId -> pricing -> tier -> price
Catalogs ==
    {[id \in TemplateIds |-> [pricing |-> [tier \in CatalogTiers |-> [price |-> f[id][tier]]]]] :
         f \in [TemplateIds -> [CatalogTiers -> Prices]]}

\* the catalog the backend of the deploy flow serves
Catalog ==
    [id \in TemplateIds |-> [pricing |-> [tier \in CatalogTiers |-> [price |-> 2900]]]]

\* Deployment.status values
Statuses == {"pending", "deploying", "running", "stopped", "failed"}

\* the caller whose browser shows the templates page (callers are interchangeable)
PageUsers == {"alice"}

InvIds == 1..MaxInvocations

\* `${templateId}-${tier}`
Selector(templateId, tier) == templateId \o "-" \o tier

\* the values tried in a direct INSERT and the status values tried in a direct UPDATE
DirectPlan == Selector("notary-assistant", "basic")
DirectTemplate == "notary-assistant"
DirectStatus == "running"
UpdateStatuses == {"pending", "running"}

\* session.access_token of the identity provider's session of caller u
AccessToken(u) == "jwt:" \o u

\* `Bearer ${session?.access_token}`
AuthHeader(s) == IF s = NULL THEN "Bearer undefined" ELSE "Bearer " \o AccessToken(s)

(* ------------------------- route middleware values ---------------------- *)

\* a pathname is the sequence of its characters
Root == <<"/">>
LoginPath == <<"/", "l", "o", "g", "i", "n">>

\* const publicRoutes = ['/login', '/signup', '/auth/callback']
publicRoutes == {<<"/", "l", "o", "g", "i", "n">>,
                 <<"/", "s", "i", "g", "n", "u", "p">>,
                 <<"/", "a", "u", "t", "h", "/", "c", "a", "l", "l", "b", "a", "c", "k">>}

\* the alternatives of the negative lookahead of config.matcher:
\* '/((?!_next/static|_next/image|favicon.ico).*)'; a "." matches any character
matcherExcluded == {<<"_", "n", "e", "x", "t", "/", "s", "t", "a", "t", "i", "c">>,
                    <<"_", "n", "e", "x", "t", "/", "i", "m", "a", "g", "e">>,
                    <<"f", "a", "v", "i", "c", "o", "n", ".", "i", "c", "o">>}

\* the pathnames requested
Paths == {<<"/">>,
          <<"/", "l", "o", "g", "i", "n">>,
          <<"/", "l", "o", "g", "i", "n", "x">>,
          <<"/", "s", "i", "g", "n", "u", "p">>,
          <<"/", "a", "u", "t", "h", "/", "c", "a", "l", "l", "b", "a", "c", "k">>,
          <<"/", "a", "u", "t", "h">>,
          <<"/", "t", "e", "m", "p", "l", "a", "t", "e", "s">>,
          <<"/", "d", "e", "p", "l", "o", "y", "m", "e", "n", "t", "s">>,
          <<"/", "f", "a", "v", "i", "c", "o", "n", ".", "i", "c", "o">>,
          <<"/", "_", "n", "e", "x", "t", "/", "s", "t", "a", "t", "i", "c", "/", "a", ".", "j", "s">>,
          <<"/", "_", "n", "e", "x", "t", "/", "i", "m", "a", "g", "e">>,
          <<"/", "_", "n", "e", "x", "t", "/", "d", "a", "t", "a">>,
          <<"/", "p", "r", "o", "f", "i", "l", "e">>,
          <<"/", "l", "o", "g", "i", "n", "/", "r", "e", "s", "e", "t">>,
          <<"/", "s", "i", "g", "n", "u", "p", "/", "d", "o", "n", "e">>,
          <<"/", "a", "u", "t", "h", "/", "c", "a", "l", "l", "b", "a", "c", "k", "/", "x">>,
          <<"/", "f", "a", "v", "i", "c", "o", "n", "X", "i", "c", "o">>,
          <<"/", "f", "a", "v", "i", "c", "o", "n", ".", "i", "c", "o", "n">>,
          <<"/", "_", "n", "e", "x", "t">>,
          <<"/", "l", "o", "g", "i">>,
          <<"/", "x", "/", "l", "o", "g", "i", "n">>,
          <<"/", "s", "i", "g", "n", "u">>}

\* redirects the browser follows in one navigation
MaxRedirects == 3

(* ----------------------- backend deploy workflow values ----------------- *)

\* github.ref of a run: a push to main or staging, or a workflow_dispatch on any ref
Main == "refs/heads/main"
Refs == {Main, "refs/heads/staging", "refs/heads/feature"}

\* jobs.build-and-deploy.steps, by name
BuildSteps ==
    << "Checkout code", "Set up Python", "Configure AWS credentials",
       "Set environment variables",
       "Install dependencies and create deployment package",
       "Update secrets in AWS Secrets Manager", "Create deployment package",
       "Get Lambda function name", "Deploy to Lambda", "Run database migrations",
       "Warm up Lambda function", "Run health check", "Update API Gateway (if exists)",
       "Cleanup", "Notify deployment status" >>

\* for i in {1..5}
HealthAttempts == 5

NoRun == [status |-> "none", ref |-> NULL, test |-> "none", build |-> "none",
          post |-> "none", step |-> 0, failed |-> FALSE, environment |-> NULL,
          ENVIRONMENT |-> NULL, STACK_NAME |-> NULL, attempts |-> 0,
          health |-> "none", exit |-> 0, healthStep |-> "none", notified |-> NULL]

(* --------------------- local environment test script values ------------- *)

\* what the four probes of the script may read: jq's .status of /health, jq's
\* `.templates | length` of /templates ("" when curl gave jq nothing), curl's
\* %{http_code} of the frontend, and the stdout of psql -c "SELECT 1;" (characters)
HealthOutputs == {"healthy", "degraded", "error"}
TemplatesOutputs == {"", "0", "1", "3"}
FrontendOutputs == {"200", "500", "000"}
DatabaseOutputs == {<<"1", " ", "(", "1", " ", "r", "o", "w", ")">>,
                    <<"e", "r", "r", "o", "r">>}

Environments ==
    [health : HealthOutputs, templates : TemplatesOutputs, frontend : FrontendOutputs,
     database : DatabaseOutputs]

\* the order of the checks in the script
ScriptChecks == <<"health", "templates", "frontend", "database">>

NoScript == [status |-> "none", env |-> NULL, ran |-> <<>>, passed |-> FALSE,
             exit |-> NULL]

NoNav == [path |-> <<>>, outcome |-> "none", redirects |-> 0]

(* ------------------------------- state -------------------------------- *)

VARIABLES
    session,        \* identity provider: the browser's current session (its user) or NULL
    user,           \* Templates: useState user
    deploying,      \* Templates: useState deploying
    inv,            \* handleDeploy invocations, by number
    subscriptions,  \* table subscriptions
    deployments,    \* table deployments
    billing,        \* payments provider: billing records created
    droplets,       \* infrastructure provider: resources it confirmed
    direct,         \* direct INSERT / UPDATE statements accepted so far, and whether one was denied
    polled,         \* status updates the infrastructure provider has driven so far
    templates,      \* Templates: useState templates
    loading,        \* Templates: useState loading
    user_profiles,  \* table user_profiles (the ids of its rows)
    update_history, \* table update_history
    update_history_id_seq, \* the sequence behind update_history.id (BIGSERIAL)
    view,           \* the cards the deployments page last rendered
    nav,            \* the browser's current navigation, as the route middleware sees it
    wf,             \* a run of the backend deploy workflow
    script          \* a run of the local environment test script

vars == <<session, user, deploying, inv, subscriptions, deployments, billing,
          droplets, direct, polled, templates, loading, user_profiles,
          update_history, update_history_id_seq, view, nav, wf, script>>

page == <<user, deploying, inv>>
store == <<subscriptions, deployments>>
providers == <<billing, droplets, polled>>
catalog == <<templates, loading>>
audit == <<user_profiles, update_history, update_history_id_seq>>
ops == <<nav, wf, script>>

IdleInv == [pc |-> "idle", templateId |-> NULL, tier |-> NULL, auth |-> NULL,
            subReqs |-> 0, depReqs |-> 0, subResp |-> "none", depResp |-> "none",
            url |-> NULL, alert |-> <<>>]

Init ==
    /\ session = NULL
    /\ user = NULL
    /\ deploying = NULL
    /\ inv = [i \in InvIds |-> IdleInv]
    /\ subscriptions = {}
    /\ deployments = {}
    /\ billing = {}
    /\ droplets = {}
    /\ direct = [ins |-> 0, upd |-> 0, denied |-> FALSE]
    /\ polled = 0
    /\ templates = <<>>
    /\ loading = TRUE
    /\ user_profiles = Callers
    /\ update_history = {}
    /\ update_history_id_seq = 0
    /\ view = <<>>
    /\ nav = NoNav
    /\ wf = NoRun
    /\ script = NoScript

(* --------------------- identity provider session ---------------------- *)

\* login page: signInWithPassword succeeded for u
SignIn(u) ==
    /\ session = NULL
    /\ user = NULL
    /\ session' = u
    /\ UNCHANGED <<page, store, providers, direct, catalog, audit, view, ops>>

\* the session ends (sign-out in another tab, expiry); the page is not told
SignOut ==
    /\ session # NULL
    /\ session' = NULL
    /\ UNCHANGED <<page, store, providers, direct, catalog, audit, view, ops>>

(* --------------------------- templates page --------------------------- *)

\* useEffect: supabase.auth.getUser().then(({data: {user}}) => setUser(user))
GetUser ==
    /\ user = NULL
    /\ session # NULL
    /\ user' = session
    /\ UNCHANGED <<session, deploying, inv, store, providers, direct, catalog, audit, view,
                   ops>>

\* fetch(`${API_URL}/templates`) stored prices converted to major units
FetchTemplatesMajorUnits(data) ==
    /\ loading
    /\ templates' = [id \in DOMAIN data |->
                        [pricing |-> [tier \in DOMAIN data[id].pricing |->
                            [price |-> data[id].pricing[tier].price \div 100]]]]
    /\ loading' = FALSE
    /\ UNCHANGED <<session, page, store, providers, direct, audit, view, ops>>

\* useEffect: fetch(`${API_URL}/templates`) resolved with data.templates
FetchTemplates(data) ==
    /\ loading
    /\ templates' = data
    /\ loading' = FALSE
    /\ UNCHANGED <<session, page, store, providers, direct, audit, view, ops>>

\* useEffect: the fetch of /templates rejected; .catch sets loading to false
FetchTemplatesFails ==
    /\ loading
    /\ loading' = FALSE
    /\ UNCHANGED <<session, page, store, providers, direct, templates, audit, view, ops>>

\* ${pricing.price/100}: the amount shown, as <<whole units, hundredths>>
DisplayPrice(price) == <<price \div 100, price % 100>>

\* the Deploy button of a template and tier is rendered
ButtonRendered(id, tier) ==
    /\ ~loading
    /\ id \in DOMAIN templates
    /\ tier \in DOMAIN templates[id].pricing

\* <button disabled={!user || deploying === id}>
ButtonDisabled(id) == user = NULL \/ deploying = id

\* alert('Please sign in first')
SignInAlert == <<"Please sign in first">>

\* handleDeploy with no user and no return after the alert: it goes on to setDeploying
HandleDeployNoUserProceeds(i, templateId, tier) ==
    /\ inv[i].pc = "idle"
    /\ \A j \in InvIds : j < i => inv[j].pc # "idle"
    /\ user = NULL
    /\ deploying' = templateId
    /\ inv' = [inv EXCEPT ![i] = [@ EXCEPT !.pc = "getSession",
                                           !.templateId = templateId,
                                           !.tier = tier,
                                           !.alert = SignInAlert]]
    /\ UNCHANGED <<session, user, store, providers, direct, catalog, audit, view, ops>>

\* handleDeploy with no user: alert('Please sign in first'); return
HandleDeployNoUser(i, templateId, tier) ==
    /\ inv[i].pc = "idle"
    /\ \A j \in InvIds : j < i => inv[j].pc # "idle"
    /\ user = NULL
    /\ inv' = [inv EXCEPT ![i] = [@ EXCEPT !.pc = "done",
                                           !.templateId = templateId,
                                           !.tier = tier,
                                           !.alert = SignInAlert]]
    /\ UNCHANGED <<session, user, deploying, store, providers, direct, catalog, audit, view,
                   ops>>

\* HandleDeployStart with an abort of the requests still in flight on the page
HandleDeployStartAborting(i, templateId, tier) ==
    /\ inv[i].pc = "idle"
    /\ \A j \in InvIds : j < i => inv[j].pc # "idle"
    /\ ButtonRendered(templateId, tier)
    /\ ~ButtonDisabled(templateId)
    /\ deploying' = templateId
    /\ inv' = [j \in InvIds |->
                 IF j = i
                 THEN [inv[j] EXCEPT !.pc = "getSession", !.templateId = templateId,
                                     !.tier = tier]
                 ELSE IF inv[j].pc \in {"awaitSub", "awaitDeploy"}
                 THEN [inv[j] EXCEPT !.pc = "done", !.alert = <<"Error", "AbortError">>]
                 ELSE inv[j]]
    /\ UNCHANGED <<session, user, store, providers, direct, catalog, audit, view, ops>>

\* a click on an enabled Deploy button: handleDeploy up to its first await
HandleDeployStart(i, templateId, tier) ==
    /\ inv[i].pc = "idle"
    /\ \A j \in InvIds : j < i => inv[j].pc # "idle"
    /\ ButtonRendered(templateId, tier)
    /\ ~ButtonDisabled(templateId)
    /\ deploying' = templateId
    /\ inv' = [inv EXCEPT ![i] = [@ EXCEPT !.pc = "getSession",
                                           !.templateId = templateId,
                                           !.tier = tier]]
    /\ UNCHANGED <<session, user, store, providers, direct, catalog, audit, view, ops>>

\* body of the POST /create-subscription request
SubscriptionPayload(r) == [plan_type |-> Selector(r.templateId, r.tier),
                           payment_method_id |-> "pm_card_visa"]

\* body of the POST /deploy request
DeployPayload(r) == [template_id |-> Selector(r.templateId, r.tier),
                     payment_method_id |-> "pm_card_visa"]

\* getSession resolved; fetch(`${API_URL}/create-subscription`, ...) is sent
SendSubscription(i) ==
    /\ inv[i].pc = "getSession"
    /\ inv' = [inv EXCEPT ![i] = [@ EXCEPT !.pc = "awaitSub",
                                           !.auth = AuthHeader(session),
                                           !.subReqs = @ + 1,
                                           !.subResp = "none"]]
    /\ UNCHANGED <<session, user, deploying, store, providers, direct,
                   catalog, audit, view, ops>>

\* a response is ok when its status is 2xx; a fetch that rejected has no response
ResponseOk(resp) == resp = "ok"

\* where handleDeploy continues once the /create-subscription fetch has settled
AfterSubscriptionNoCheck(resp) == "awaitDeploy"
AfterSubscriptionRetry(resp) == IF ResponseOk(resp) THEN "awaitDeploy" ELSE "getSession"
AfterSubscription(resp) == IF ResponseOk(resp) THEN "awaitDeploy" ELSE "done"

\* error.message in the catch block for a settled /create-subscription fetch
SubscriptionError(resp) ==
    IF resp = "TransportError" THEN "TransportError" ELSE "Failed to create subscription"

\* error.message in the catch block for a settled /deploy fetch
DeployError(resp) ==
    IF resp = "TransportError" THEN "TransportError" ELSE "Failed to deploy"

\* alert(`Error: ${error.message}`)
ErrorAlert(message) == <<"Error", message>>

\* alert(`Deployment started! URL: ${deployData.url}`)
StartedAlert(url) == <<"Deployment started! URL", url>>

\* OnSubscriptionSettled with the reset of deploying on the success path only
\* (no finally block): a failed /create-subscription leaves deploying set
OnSubscriptionSettledNoFinally(i) ==
    /\ inv[i].pc = "awaitSub"
    /\ inv[i].subResp # "none"
    /\ LET next == AfterSubscription(inv[i].subResp) IN
       IF next = "awaitDeploy"
       THEN inv' = [inv EXCEPT ![i] = [@ EXCEPT !.pc = next,
                                               !.depReqs = @ + 1,
                                               !.depResp = "none"]]
       ELSE inv' = [inv EXCEPT ![i] = [@ EXCEPT !.pc = next,
                                   !.alert = ErrorAlert(SubscriptionError(inv[i].subResp))]]
    /\ UNCHANGED <<session, user, deploying, store, providers, direct, catalog, audit, view,
                   ops>>

\* the /create-subscription fetch settled: throw to catch/finally, or send /deploy
OnSubscriptionSettled(i) ==
    /\ inv[i].pc = "awaitSub"
    /\ inv[i].subResp # "none"
    /\ LET next == AfterSubscription(inv[i].subResp) IN
       IF next = "awaitDeploy"
       THEN /\ inv' = [inv EXCEPT ![i] = [@ EXCEPT !.pc = next,
                                                  !.depReqs = @ + 1,
                                                  !.depResp = "none"]]
            /\ UNCHANGED deploying
       ELSE /\ inv' = [inv EXCEPT ![i] = [@ EXCEPT !.pc = next,
                                   !.alert = ErrorAlert(SubscriptionError(inv[i].subResp))]]
            /\ deploying' = NULL
    /\ UNCHANGED <<session, user, store, providers, direct, catalog, audit, view, ops>>

\* OnDeploySettled with a compensating step: a failed /deploy withdraws the
\* subscription the invocation has just created
OnDeploySettledRollback(i) ==
    /\ inv[i].pc = "awaitDeploy"
    /\ inv[i].depResp # "none"
    /\ inv' = [inv EXCEPT ![i] = [@ EXCEPT !.pc = "done",
                   !.alert = IF ResponseOk(inv[i].depResp)
                             THEN StartedAlert(inv[i].url)
                             ELSE ErrorAlert(DeployError(inv[i].depResp))]]
    /\ deploying' = NULL
    /\ subscriptions' =
          IF ResponseOk(inv[i].depResp)
          THEN subscriptions
          ELSE {s \in subscriptions : s.plan_type # SubscriptionPayload(inv[i]).plan_type}
    /\ UNCHANGED <<session, user, deployments, providers, direct, catalog, audit, view,
                   ops>>

\* the /deploy fetch settled: alert the URL or the error; finally setDeploying(null)
OnDeploySettled(i) ==
    /\ inv[i].pc = "awaitDeploy"
    /\ inv[i].depResp # "none"
    /\ inv' = [inv EXCEPT ![i] = [@ EXCEPT !.pc = "done",
                   !.alert = IF ResponseOk(inv[i].depResp)
                             THEN StartedAlert(inv[i].url)
                             ELSE ErrorAlert(DeployError(inv[i].depResp))]]
    /\ deploying' = NULL
    /\ UNCHANGED <<session, user, store, providers, direct, catalog, audit, view, ops>>

(* ------------------- persisted schema (database.sql) ------------------- *)

\* user_profiles: the ids a foreign key to user_profiles(id) accepts
Profiles == user_profiles

\* uuid_generate_v4(): a fresh id for the n-th row of a table
SubscriptionId(n) == "s" \o ToString(n)
DeploymentId(n) == "d" \o ToString(n)

SubscriptionRow(id, uid, stripe, plan, status) ==
    [id |-> id, user_id |-> uid, stripe_subscription_id |-> stripe,
     plan_type |-> plan, status |-> status]

DeploymentRow(id, uid, template, droplet, url, status, sid) ==
    [id |-> id, user_id |-> uid, template_id |-> template, droplet_id |-> droplet,
     url |-> url, status |-> status, subscription_id |-> sid]

\* "Users can view their own subscriptions": USING (auth.uid() = user_id)
SubscriptionsSelectPolicyNone(uid, row) == FALSE
SubscriptionsSelectPolicy(uid, row) == uid = row.user_id

\* "Users can create their own subscriptions": WITH CHECK (auth.uid() = user_id)
SubscriptionsInsertPolicy(uid, row) == uid = row.user_id

\* "Users can view their own deployments": USING (auth.uid() = user_id)
DeploymentsSelectPolicyOpen(uid, row) == TRUE
DeploymentsSelectPolicy(uid, row) == uid = row.user_id

\* "Users can create their own deployments": WITH CHECK (auth.uid() = user_id)
DeploymentsInsertPolicy(uid, row) == uid = row.user_id

\* "Users can update their own deployments": USING (auth.uid() = user_id)
DeploymentsUpdateUsing(uid, row) == uid = row.user_id

\* an UPDATE policy without WITH CHECK applies its USING expression to the new row
DeploymentsUpdateCheckNone(uid, new) == TRUE
DeploymentsUpdateCheck(uid, new) == DeploymentsUpdateUsing(uid, new)

\* subscriptions: NOT NULL columns and the foreign key to user_profiles
SubscriptionsConstraints(row) ==
    /\ row.user_id \in Profiles
    /\ row.stripe_subscription_id # NULL
    /\ row.plan_type # NULL
    /\ row.status # NULL

\* deployments: NOT NULL columns and the foreign keys to user_profiles and
\* subscriptions; the table declares no UNIQUE and no CHECK constraint
DeploymentsConstraintsUnique(row, deps, subs) ==
    /\ row.user_id \in Profiles
    /\ row.template_id # NULL
    /\ row.subscription_id = NULL \/ \E s \in subs : s.id = row.subscription_id
    /\ ~\E d \in deps : /\ d.id # row.id
                        /\ d.user_id = row.user_id
                        /\ d.template_id = row.template_id
DeploymentsConstraints(row, deps, subs) ==
    /\ row.user_id \in Profiles
    /\ row.template_id # NULL
    /\ row.subscription_id = NULL \/ \E s \in subs : s.id = row.subscription_id

SubscriptionIds == {s.id : s \in subscriptions}

(* --------- statements a signed-in caller issues through the policies ---- *)

\* SELECT * FROM deployments, as caller: the rows the SELECT policy lets through
SelectDeployments(caller) == {r \in deployments : DeploymentsSelectPolicy(caller, r)}

\* SELECT * FROM subscriptions, as caller
SelectSubscriptions(caller) == {r \in subscriptions : SubscriptionsSelectPolicy(caller, r)}

\* INSERT INTO subscriptions (user_id, plan_type, status, ...), as caller
InsertSubscription(caller, uid, plan, status) ==
    /\ direct.ins < MaxDirectInserts
    /\ LET row == SubscriptionRow(SubscriptionId(Cardinality(subscriptions) + 1),
                                  uid, "sub_direct", plan, status)
           accepted == SubscriptionsInsertPolicy(caller, row) /\ SubscriptionsConstraints(row)
       IN /\ subscriptions' = IF accepted THEN subscriptions \cup {row} ELSE subscriptions
          /\ direct' = IF accepted THEN [direct EXCEPT !.ins = @ + 1]
                                   ELSE [direct EXCEPT !.denied = TRUE]
    /\ UNCHANGED <<session, page, deployments, providers, catalog, audit, view, ops>>

\* INSERT INTO deployments (user_id, template_id, status, subscription_id), as caller
InsertDeployment(caller, uid, template, status, sid) ==
    /\ direct.ins < MaxDirectInserts
    /\ LET row == DeploymentRow(DeploymentId(Cardinality(deployments) + 1),
                                uid, template, NULL, NULL, status, sid)
           accepted == /\ DeploymentsInsertPolicy(caller, row)
                       /\ DeploymentsConstraints(row, deployments, subscriptions)
       IN /\ deployments' = IF accepted THEN deployments \cup {row} ELSE deployments
          /\ direct' = IF accepted THEN [direct EXCEPT !.ins = @ + 1]
                                   ELSE [direct EXCEPT !.denied = TRUE]
    /\ UNCHANGED <<session, page, subscriptions, providers, catalog, audit, view, ops>>

\* UPDATE deployments SET ... WHERE id = old.id, as caller: row old becomes new
UpdateDeployment(caller, old, new) ==
    /\ direct.upd < MaxDirectUpdates
    /\ old \in deployments
    /\ new.id = old.id
    /\ LET accepted == /\ DeploymentsUpdateUsing(caller, old)
                       /\ DeploymentsUpdateCheck(caller, new)
                       /\ DeploymentsConstraints(new, deployments, subscriptions)
       IN /\ deployments' = IF accepted THEN (deployments \ {old}) \cup {new} ELSE deployments
          /\ direct' = IF accepted THEN [direct EXCEPT !.upd = @ + 1]
                                   ELSE [direct EXCEPT !.denied = TRUE]
    /\ UNCHANGED <<session, page, subscriptions, providers, catalog, audit, view, ops>>

\* the single-column updates tried on a row: SET status, SET user_id, SET subscription_id
DirectUpdates(old) ==
    {[old EXCEPT !.status = st] : st \in UpdateStatuses}
    \cup {[old EXCEPT !.user_id = uid] : uid \in Callers}
    \cup {[old EXCEPT !.subscription_id = sid] : sid \in SubscriptionIds \cup {NULL}}

\* any statement caller issues through the policies
DirectStatement(caller) ==
    \/ \E uid \in Callers : InsertSubscription(caller, uid, DirectPlan, "active")
    \/ \E uid \in Callers : InsertDeployment(caller, uid, DirectTemplate, DirectStatus, NULL)
    \/ \E old \in deployments : \E new \in DirectUpdates(old) :
          UpdateDeployment(caller, old, new)

(* ------------------------------ backend ------------------------------- *)

\* the caller a bearer credential identifies, or NULL
Authenticate(auth) ==
    IF \E u \in Callers : auth = AuthHeader(u)
    THEN CHOOSE u \in Callers : auth = AuthHeader(u)
    ELSE NULL

\* the template+tier combinations a selector may resolve to
KnownPlans == {Selector(t, tier) : t \in TemplateIds, tier \in Tiers}

\* the template identifier a known selector resolves to
TemplateOf(selector) ==
    CHOOSE t \in TemplateIds : \E tier \in Tiers : Selector(t, tier) = selector

BillingId(n) == "sub_" \o ToString(n)
DropletId(n) == "droplet-" \o ToString(n)
UrlOf(droplet) == "https://" \o droplet

\* the caller's active subscriptions for a plan
ActiveSubscriptions(caller, plan) ==
    {s \in subscriptions : s.user_id = caller /\ s.plan_type = plan /\ s.status = "active"}

\* the Subscription row createSubscription persists on the provider's success
CreatedSubscription(caller, stripe, plan) ==
    SubscriptionRow(SubscriptionId(Cardinality(subscriptions) + 1), caller, stripe,
                    plan, "active")

\* POST /create-subscription: authenticate, resolve the plan, ask the payments
\* provider, and on its success persist the Subscription row
BackendCreateSubscription(i) ==
    /\ inv[i].pc = "awaitSub"
    /\ inv[i].subResp = "none"
    /\ LET caller == Authenticate(inv[i].auth)
           plan == SubscriptionPayload(inv[i]).plan_type
       IN
       IF caller = NULL
       THEN /\ inv' = [inv EXCEPT ![i].subResp = "Unauthenticated"]
            /\ UNCHANGED <<subscriptions, billing>>
       ELSE IF plan \notin KnownPlans
       THEN /\ inv' = [inv EXCEPT ![i].subResp = "NotFound"]
            /\ UNCHANGED <<subscriptions, billing>>
       ELSE \E accepted \in BOOLEAN :
            IF accepted
            THEN LET stripe == BillingId(Cardinality(billing) + 1)
                 IN /\ billing' = billing \cup {stripe}
                    /\ subscriptions' = subscriptions
                                        \cup {CreatedSubscription(caller, stripe, plan)}
                    /\ inv' = [inv EXCEPT ![i].subResp = "ok"]
            ELSE /\ inv' = [inv EXCEPT ![i].subResp = "PaymentRejected"]
                 /\ UNCHANGED <<subscriptions, billing>>
    /\ UNCHANGED <<session, user, deploying, deployments, droplets, direct, polled,
                   catalog, audit, view, ops>>

\* the Deployment row deploy persists once the provider confirmed the resource
DeployedRow(caller, template, droplet, sid) ==
    DeploymentRow(DeploymentId(Cardinality(deployments) + 1), caller, template,
                  droplet, UrlOf(droplet), "deploying", sid)

\* POST /deploy: authenticate, resolve the template, check the entitlement, ask
\* the infrastructure provider, and only on its success persist the Deployment row
BackendDeploy(i) ==
    /\ inv[i].pc = "awaitDeploy"
    /\ inv[i].depResp = "none"
    /\ LET caller == Authenticate(inv[i].auth)
           selector == DeployPayload(inv[i]).template_id
       IN
       IF caller = NULL
       THEN /\ inv' = [inv EXCEPT ![i].depResp = "Unauthenticated"]
            /\ UNCHANGED <<deployments, droplets>>
       ELSE IF selector \notin KnownPlans \/ ActiveSubscriptions(caller, selector) = {}
       THEN /\ inv' = [inv EXCEPT ![i].depResp = "NotFound"]
            /\ UNCHANGED <<deployments, droplets>>
       ELSE \E confirmed \in BOOLEAN :
            IF confirmed
            THEN \E s \in ActiveSubscriptions(caller, selector) :
                 LET droplet == DropletId(Cardinality(droplets) + 1)
                     row == DeployedRow(caller, TemplateOf(selector), droplet, s.id)
                 IN /\ droplets' = droplets \cup {droplet}
                    /\ deployments' = deployments \cup {row}
                    /\ inv' = [inv EXCEPT ![i].depResp = "ok", ![i].url = row.url]
            ELSE /\ inv' = [inv EXCEPT ![i].depResp = "ProvisioningFailed"]
                 /\ UNCHANGED <<deployments, droplets>>
    /\ UNCHANGED <<session, user, deploying, subscriptions, billing, direct, polled,
                   catalog, audit, view, ops>>

\* the fetch of /create-subscription rejects: the backend was not reached
SubscriptionFetchFails(i) ==
    /\ inv[i].pc = "awaitSub"
    /\ inv[i].subResp = "none"
    /\ inv' = [inv EXCEPT ![i].subResp = "TransportError"]
    /\ UNCHANGED <<session, user, deploying, store, providers, direct,
                   catalog, audit, view, ops>>

\* the fetch of /deploy rejects: the backend was not reached
DeployFetchFails(i) ==
    /\ inv[i].pc = "awaitDeploy"
    /\ inv[i].depResp = "none"
    /\ inv' = [inv EXCEPT ![i].depResp = "TransportError"]
    /\ UNCHANGED <<session, user, deploying, store, providers, direct,
                   catalog, audit, view, ops>>

\* the status edges the infrastructure provider's polling or webhook drives
StatusEdges == {<<"pending", "deploying">>, <<"deploying", "running">>,
                <<"deploying", "failed">>, <<"running", "stopped">>,
                <<"running", "failed">>}

\* out-of-band status update of one Deployment row the provider knows
ProviderStatusUpdate(old, status) ==
    /\ old \in deployments
    /\ old.droplet_id \in droplets
    /\ <<old.status, status>> \in StatusEdges
    /\ polled < MaxStatusUpdates
    /\ polled' = polled + 1
    /\ deployments' = (deployments \ {old}) \cup {[old EXCEPT !.status = status]}
    /\ UNCHANGED <<session, page, subscriptions, billing, droplets, direct,
                   catalog, audit, view, ops>>

(* ------------- statements the schema grants callers no policy for -------- *)

\* row level security is enabled on every table: a command without a policy is
\* denied. deployments and subscriptions have no DELETE policy, subscriptions no
\* UPDATE policy, update_history no INSERT, UPDATE or DELETE policy.
DeploymentsDeletePolicy(uid, row) == FALSE
SubscriptionsDeletePolicy(uid, row) == FALSE
SubscriptionsUpdatePolicy(uid, row) == FALSE
UpdateHistoryWritePolicy(uid, row) == FALSE

\* "Users can view their own deployment history": USING (EXISTS (SELECT 1 FROM
\* deployments WHERE deployments.id = update_history.deployment_id AND
\* deployments.user_id = auth.uid()))
UpdateHistorySelectPolicy(uid, row) ==
    \E d \in deployments : d.id = row.deployment_id /\ d.user_id = uid

UpdateHistoryRow(id, deployment_id, details) ==
    [id |-> id, deployment_id |-> deployment_id, details |-> details]

\* update_history: deployment_id REFERENCES deployments(id); the column is nullable
UpdateHistoryConstraints(row, deps) ==
    row.deployment_id = NULL \/ \E d \in deps : d.id = row.deployment_id

\* deployments.id of the rows removed, followed through ON DELETE CASCADE of
\* update_history.deployment_id
HistoryAfterDelete(gone, history) ==
    {h \in history : h.deployment_id \notin {d.id : d \in gone}}

\* subscriptions.id of the rows removed, followed through ON DELETE SET NULL of
\* deployments.subscription_id
DeploymentsAfterSubscriptionDeleteKeep(gone, deps) == deps
DeploymentsAfterSubscriptionDelete(gone, deps) ==
    {IF d.subscription_id \in {s.id : s \in gone}
     THEN [d EXCEPT !.subscription_id = NULL] ELSE d : d \in deps}

\* DELETE FROM deployments WHERE id = row.id, as caller
DeleteDeployment(caller, row) ==
    /\ row \in deployments
    /\ LET accepted == DeploymentsDeletePolicy(caller, row)
       IN /\ deployments' = IF accepted THEN deployments \ {row} ELSE deployments
          /\ update_history' = IF accepted THEN HistoryAfterDelete({row}, update_history)
                                            ELSE update_history
          /\ direct' = IF accepted THEN direct ELSE [direct EXCEPT !.denied = TRUE]
    /\ UNCHANGED <<session, page, subscriptions, providers, catalog, user_profiles,
                   update_history_id_seq, view, ops>>

\* DELETE FROM subscriptions WHERE id = row.id, as caller
DeleteSubscription(caller, row) ==
    /\ row \in subscriptions
    /\ LET accepted == SubscriptionsDeletePolicy(caller, row)
       IN /\ subscriptions' = IF accepted THEN subscriptions \ {row} ELSE subscriptions
          /\ deployments' = IF accepted
                            THEN DeploymentsAfterSubscriptionDelete({row}, deployments)
                            ELSE deployments
          /\ direct' = IF accepted THEN direct ELSE [direct EXCEPT !.denied = TRUE]
    /\ UNCHANGED <<session, page, providers, catalog, audit, view, ops>>

\* UPDATE subscriptions SET ... WHERE id = old.id, as caller
UpdateSubscription(caller, old, new) ==
    /\ old \in subscriptions
    /\ new.id = old.id
    /\ LET accepted == /\ SubscriptionsUpdatePolicy(caller, old)
                       /\ SubscriptionsUpdatePolicy(caller, new)
                       /\ SubscriptionsConstraints(new)
       IN /\ subscriptions' = IF accepted THEN (subscriptions \ {old}) \cup {new}
                                          ELSE subscriptions
          /\ direct' = IF accepted THEN direct ELSE [direct EXCEPT !.denied = TRUE]
    /\ UNCHANGED <<session, page, deployments, providers, catalog, audit, view, ops>>

\* INSERT INTO update_history (deployment_id, details), as caller
InsertHistory(caller, deployment_id, details) ==
    /\ update_history_id_seq < MaxHistory
    /\ LET row == UpdateHistoryRow(update_history_id_seq + 1, deployment_id, details)
           accepted == /\ UpdateHistoryWritePolicy(caller, row)
                       /\ UpdateHistoryConstraints(row, deployments)
       IN /\ update_history' = IF accepted THEN update_history \cup {row} ELSE update_history
          /\ update_history_id_seq' = IF accepted THEN update_history_id_seq + 1
                                                  ELSE update_history_id_seq
          /\ direct' = IF accepted THEN direct ELSE [direct EXCEPT !.denied = TRUE]
    /\ UNCHANGED <<session, page, store, providers, catalog, user_profiles, view, ops>>

\* UPDATE update_history SET details = ... WHERE id = old.id, as caller
UpdateHistory(caller, old, details) ==
    /\ old \in update_history
    /\ LET new == [old EXCEPT !.details = details]
           accepted == /\ UpdateHistoryWritePolicy(caller, old)
                       /\ UpdateHistoryWritePolicy(caller, new)
       IN /\ update_history' = IF accepted THEN (update_history \ {old}) \cup {new}
                                           ELSE update_history
          /\ direct' = IF accepted THEN direct ELSE [direct EXCEPT !.denied = TRUE]
    /\ UNCHANGED <<session, page, store, providers, catalog, user_profiles,
                   update_history_id_seq, view, ops>>

\* DELETE FROM update_history WHERE id = row.id, as caller
DeleteHistory(caller, row) ==
    /\ row \in update_history
    /\ LET accepted == UpdateHistoryWritePolicy(caller, row)
       IN /\ update_history' = IF accepted THEN update_history \ {row} ELSE update_history
          /\ direct' = IF accepted THEN direct ELSE [direct EXCEPT !.denied = TRUE]
    /\ UNCHANGED <<session, page, store, providers, catalog, user_profiles,
                   update_history_id_seq, view, ops>>

\* the values tried in the details column
HistoryDetails == {"status", "redeploy"}

(* ------------------- writers that bypass the policies ------------------ *)

\* the recorder of update events appends a row to update_history; callers have no
\* INSERT policy, so the recorder writes with the service role, and the table's
\* constraints are all that checks its row
RecordUpdate(deployment_id, details) ==
    /\ update_history_id_seq < MaxHistory
    /\ LET row == UpdateHistoryRow(update_history_id_seq + 1, deployment_id, details)
           accepted == UpdateHistoryConstraints(row, deployments)
       IN /\ update_history' = IF accepted THEN update_history \cup {row} ELSE update_history
          /\ update_history_id_seq' = update_history_id_seq + 1
    /\ UNCHANGED <<session, page, store, providers, direct, catalog, user_profiles, view,
                   ops>>

\* the account of u is deleted at the identity provider: auth.users -> user_profiles
\* (ON DELETE CASCADE) -> subscriptions, deployments (ON DELETE CASCADE) ->
\* update_history (ON DELETE CASCADE), deployments.subscription_id (ON DELETE SET NULL).
\* No insert is tried after an account deletion.
DeleteUser(u) ==
    /\ u \in user_profiles
    /\ LET subsGone == {s \in subscriptions : s.user_id = u}
           depsGone == {d \in deployments : d.user_id = u}
       IN /\ user_profiles' = user_profiles \ {u}
          /\ subscriptions' = subscriptions \ subsGone
          /\ deployments' =
                DeploymentsAfterSubscriptionDelete(subsGone, deployments \ depsGone)
          /\ update_history' = HistoryAfterDelete(depsGone, update_history)
    /\ direct' = [direct EXCEPT !.ins = MaxDirectInserts]
    /\ UNCHANGED <<session, page, providers, catalog, update_history_id_seq, view, ops>>

(* --------------------------- deployments page -------------------------- *)

\* const dummyDeployments
dummyDeployments ==
    << [id |-> "1", name |-> "Notary AI Assistant", template |-> "Document Analysis",
        status |-> "running", url |-> "https://notary-ai-1.yourdomain.com",
        created |-> "2024-01-15", plan |-> "Pro"],
       [id |-> "2", name |-> "Smart Document Processor", template |-> "PDF Analysis",
        status |-> "deploying", url |-> "https://doc-processor-2.yourdomain.com",
        created |-> "2024-01-18", plan |-> "Basic"],
       [id |-> "3", name |-> "ID Verification System", template |-> "Identity Check",
        status |-> "stopped", url |-> "https://id-verify-3.yourdomain.com",
        created |-> "2024-01-20", plan |-> "Enterprise"] >>

\* the cards the Deployments component renders: dummyDeployments.map(...)
Deployments == [k \in 1..Len(dummyDeployments) |->
                  [key |-> dummyDeployments[k].id,
                   name |-> dummyDeployments[k].name,
                   template |-> dummyDeployments[k].template,
                   status |-> dummyDeployments[k].status,
                   url |-> dummyDeployments[k].url]]

\* created_at of a Deployment row: rows are numbered in the order they were inserted
CreatedAt(row) ==
    CHOOSE n \in 1..(MaxInvocations + MaxDirectInserts + 1) : DeploymentId(n) = row.id

\* listDeployments(caller): the caller's rows, newest first
ListDeployments(caller) ==
    LET rows == SelectDeployments(caller)
    IN CHOOSE q \in [1..Cardinality(rows) -> rows] :
           \A a, b \in 1..Cardinality(rows) : a < b => CreatedAt(q[a]) > CreatedAt(q[b])

\* the deployments page is opened or refreshed: the component renders its cards
RenderDeployments ==
    /\ view' = Deployments
    /\ UNCHANGED <<session, page, store, providers, direct, catalog, audit, ops>>

(* --------------------------- route middleware -------------------------- *)

\* pathname.startsWith(route)
StartsWith(pathname, route) ==
    /\ Len(pathname) >= Len(route)
    /\ SubSeq(pathname, 1, Len(route)) = route

\* the pattern matches at the start of the text
MatchesAt(text, pattern) ==
    /\ Len(text) >= Len(pattern)
    /\ \A k \in 1..Len(pattern) : pattern[k] = "." \/ text[k] = pattern[k]

\* config.matcher: the middleware runs for a pathname the matcher matches
MatcherMatches(pathname) ==
    /\ Len(pathname) > 0
    /\ pathname[1] = "/"
    /\ \A pattern \in matcherExcluded : ~MatchesAt(Tail(pathname), pattern)

\* publicRoutes.some(route => req.nextUrl.pathname.startsWith(route))
IsPublicRoute(pathname) == \E route \in publicRoutes : StartsWith(pathname, route)

\* middleware without the exception for public routes
MiddlewareResponseNoPublic(sess, pathname) ==
    IF sess = NULL /\ pathname # Root THEN "redirect" ELSE "next"

\* middleware(req): NextResponse.redirect(new URL('/login', req.url)) or res
MiddlewareResponse(sess, pathname) ==
    IF sess = NULL /\ ~IsPublicRoute(pathname) /\ pathname # Root
    THEN "redirect" ELSE "next"

\* the browser requests a pathname
Navigate(pathname) ==
    /\ nav.outcome \notin {"pending", "redirect"}
    /\ nav' = [path |-> pathname, outcome |-> "pending", redirects |-> 0]
    /\ UNCHANGED <<session, page, store, providers, direct, catalog, audit, view, wf, script>>

\* the middleware handles the request
Middleware ==
    /\ nav.outcome = "pending"
    /\ MatcherMatches(nav.path)
    /\ nav' = [nav EXCEPT !.outcome = MiddlewareResponse(session, nav.path)]
    /\ UNCHANGED <<session, page, store, providers, direct, catalog, audit, view, wf, script>>

\* the matcher excludes the pathname: the request is served without the middleware
MatcherSkips ==
    /\ nav.outcome = "pending"
    /\ ~MatcherMatches(nav.path)
    /\ nav' = [nav EXCEPT !.outcome = "unmatched"]
    /\ UNCHANGED <<session, page, store, providers, direct, catalog, audit, view, wf, script>>

\* the browser follows the redirect: new URL('/login', req.url)
FollowRedirect ==
    /\ nav.outcome = "redirect"
    /\ nav.redirects < MaxRedirects
    /\ nav' = [path |-> LoginPath, outcome |-> "pending", redirects |-> nav.redirects + 1]
    /\ UNCHANGED <<session, page, store, providers, direct, catalog, audit, view, wf, script>>

(* ------------------------ backend deploy workflow ----------------------- *)

\* a push to main or staging, or a workflow_dispatch: the run starts with jobs.test
Trigger(ref) ==
    /\ wf.status = "none"
    /\ wf' = [NoRun EXCEPT !.status = "running", !.ref = ref, !.test = "queued",
                           !.build = "waiting", !.post = "waiting"]
    /\ UNCHANGED <<session, page, store, providers, direct, catalog, audit, view, nav, script>>

\* jobs.test ends
TestJob(result) ==
    /\ wf.status = "running"
    /\ wf.test = "queued"
    /\ wf' = [wf EXCEPT !.test = result]
    /\ UNCHANGED <<session, page, store, providers, direct, catalog, audit, view, nav, script>>

\* jobs.build-and-deploy: needs: test (and no if:, so the implicit success())
BuildCanStartAlways == wf.test \in {"success", "failure"}
BuildCanStart == wf.test = "success"

\* environment: ${{ github.ref == 'refs/heads/main' && 'production' || 'staging' }}
JobEnvironment(ref) == IF ref = Main THEN "production" ELSE "staging"

\* step "Set environment variables": ENVIRONMENT and STACK_NAME into $GITHUB_ENV
EnvironmentVariables(ref) ==
    IF ref = Main
    THEN [ENVIRONMENT |-> "production", STACK_NAME |-> "ai-stack-platform"]
    ELSE [ENVIRONMENT |-> "staging", STACK_NAME |-> "ai-stack-platform-staging"]

BuildStart ==
    /\ wf.status = "running"
    /\ wf.build = "waiting"
    /\ BuildCanStart
    /\ wf' = [wf EXCEPT !.build = "in_progress", !.step = 1,
                        !.environment = JobEnvironment(wf.ref)]
    /\ UNCHANGED <<session, page, store, providers, direct, catalog, audit, view, nav, script>>

\* jobs.test failed: build-and-deploy is skipped
BuildSkipped ==
    /\ wf.status = "running"
    /\ wf.build = "waiting"
    /\ wf.test = "failure"
    /\ wf' = [wf EXCEPT !.build = "skipped"]
    /\ UNCHANGED <<session, page, store, providers, direct, catalog, audit, view, nav, script>>

NotifyIndex == Len(BuildSteps)

\* a step of build-and-deploy other than the health check and the notification
\* succeeds or fails; after a failure the steps without if: always() are skipped
RunStep(ok) ==
    /\ wf.build = "in_progress"
    /\ wf.step \in 1..Len(BuildSteps)
    /\ BuildSteps[wf.step] \notin {"Run health check", "Notify deployment status"}
    /\ IF ok
       THEN IF BuildSteps[wf.step] = "Set environment variables"
            THEN wf' = [wf EXCEPT !.step = @ + 1,
                           !.ENVIRONMENT = EnvironmentVariables(wf.ref).ENVIRONMENT,
                           !.STACK_NAME = EnvironmentVariables(wf.ref).STACK_NAME]
            ELSE wf' = [wf EXCEPT !.step = @ + 1]
       ELSE wf' = [wf EXCEPT !.failed = TRUE, !.step = NotifyIndex]
    /\ UNCHANGED <<session, page, store, providers, direct, catalog, audit, view, nav, script>>

\* "Run health check": ALB_DNS=$(aws cloudformation describe-stacks ...); sleep 30.
\* The shell runs with -e: a failed lookup ends the step with a failure.
HealthCheckBegin(lookupOk) ==
    /\ wf.build = "in_progress"
    /\ wf.step \in 1..Len(BuildSteps)
    /\ BuildSteps[wf.step] = "Run health check"
    /\ wf.health = "none"
    /\ IF lookupOk
       THEN wf' = [wf EXCEPT !.health = "running"]
       ELSE wf' = [wf EXCEPT !.health = "aborted", !.healthStep = "failure",
                             !.failed = TRUE, !.step = NotifyIndex]
    /\ UNCHANGED <<session, page, store, providers, direct, catalog, audit, view, nav, script>>

\* the exit status the loop body leaves: of `echo` before break when curl succeeded,
\* of `sleep 10` when it failed (curl's own status is consumed by the if)
ExitStatusAfterAttempt(curlOk) == 0

\* one pass of `for i in {1..5}`: if curl -f ...; then echo; break; else echo; sleep 10; fi
HealthAttempt(curlOk) ==
    /\ wf.health = "running"
    /\ wf.attempts < HealthAttempts
    /\ wf' = [wf EXCEPT !.attempts = @ + 1,
                        !.exit = ExitStatusAfterAttempt(curlOk),
                        !.health = IF curlOk THEN "passed" ELSE "running"]
    /\ UNCHANGED <<session, page, store, providers, direct, catalog, audit, view, nav, script>>

\* the loop is over (break, or the fifth pass done): the step ends with the exit
\* status of the last command run
HealthCheckEnd ==
    /\ \/ wf.health = "passed"
       \/ wf.health = "running" /\ wf.attempts = HealthAttempts
    /\ wf.healthStep = "none"
    /\ LET status == IF wf.exit = 0 THEN "success" ELSE "failure"
       IN wf' = [wf EXCEPT !.healthStep = status,
                           !.health = IF wf.health = "passed" THEN "passed" ELSE "exhausted",
                           !.failed = (status = "failure"),
                           !.step = IF status = "success" THEN @ + 1 ELSE NotifyIndex]
    /\ UNCHANGED <<session, page, store, providers, direct, catalog, audit, view, nav, script>>

\* "Notify deployment status", if: always(): reads job.status
Notify ==
    /\ wf.build = "in_progress"
    /\ wf.step = NotifyIndex
    /\ wf' = [wf EXCEPT !.notified = IF wf.failed THEN "failure" ELSE "success",
                        !.step = @ + 1]
    /\ UNCHANGED <<session, page, store, providers, direct, catalog, audit, view, nav, script>>

\* build-and-deploy ends: success when no step failed
BuildEnd ==
    /\ wf.build = "in_progress"
    /\ wf.step = Len(BuildSteps) + 1
    /\ wf' = [wf EXCEPT !.build = IF wf.failed THEN "failure" ELSE "success"]
    /\ UNCHANGED <<session, page, store, providers, direct, catalog, audit, view, nav, script>>

\* jobs.post-deploy: needs: build-and-deploy; if: success() && github.ref == 'refs/heads/main'
PostCanStart == wf.build = "success" /\ wf.ref = Main

PostDeployStart ==
    /\ wf.post = "waiting"
    /\ wf.build \in {"success", "failure", "skipped"}
    /\ wf' = [wf EXCEPT !.post = IF PostCanStart THEN "in_progress" ELSE "skipped",
                        !.status = IF PostCanStart THEN @ ELSE "completed"]
    /\ UNCHANGED <<session, page, store, providers, direct, catalog, audit, view, nav, script>>

PostDeployEnd(result) ==
    /\ wf.post = "in_progress"
    /\ wf' = [wf EXCEPT !.post = result, !.status = "completed"]
    /\ UNCHANGED <<session, page, store, providers, direct, catalog, audit, view, nav, script>>

(* -------------------- local environment test script -------------------- *)

\* [ "$BACKEND_HEALTH" = "healthy" ]
HealthPass(out) == out = "healthy"

\* the integer a string of digits denotes, for the strings tried
Numeric == [t \in {"0", "1", "3"} |-> IF t = "0" THEN 0 ELSE IF t = "1" THEN 1 ELSE 3]

\* [ "$TEMPLATES" -gt "0" ]: false (with an error) when $TEMPLATES is no integer
TemplatesPassGe(out) == out \in DOMAIN Numeric /\ Numeric[out] >= 0
TemplatesPass(out) == out \in DOMAIN Numeric /\ Numeric[out] > 0

\* [ "$FRONTEND_STATUS" = "200" ]
FrontendPass(out) == out = "200"

\* [[ "$DB_TEST" == *"1"* ]]
DatabasePass(out) == \E k \in DOMAIN out : out[k] = "1"

\* the outcome of the check of that name in environment env
CheckPass(name, env) ==
    IF name = "health" THEN HealthPass(env.health)
    ELSE IF name = "templates" THEN TemplatesPass(env.templates)
    ELSE IF name = "frontend" THEN FrontendPass(env.frontend)
    ELSE DatabasePass(env.database)

\* the script is started in an environment
ScriptStart(env) ==
    /\ script.status = "none"
    /\ script' = [NoScript EXCEPT !.status = "running", !.env = env]
    /\ UNCHANGED <<session, page, store, providers, direct, catalog, audit, view, nav, wf>>

\* the next check runs: on failure the script prints the failure and exits 1
ScriptCheck ==
    /\ script.status = "running"
    /\ Len(script.ran) < Len(ScriptChecks)
    /\ LET name == ScriptChecks[Len(script.ran) + 1]
       IN IF CheckPass(name, script.env)
          THEN script' = [script EXCEPT !.ran = Append(@, name)]
          ELSE script' = [script EXCEPT !.ran = Append(@, name), !.status = "exited",
                                        !.exit = 1]
    /\ UNCHANGED <<session, page, store, providers, direct, catalog, audit, view, nav, wf>>

\* after the fourth check: echo "All local tests passed!" and the end of the script
ScriptEnd ==
    /\ script.status = "running"
    /\ Len(script.ran) = Len(ScriptChecks)
    /\ script' = [script EXCEPT !.passed = TRUE, !.status = "exited", !.exit = 0]
    /\ UNCHANGED <<session, page, store, providers, direct, catalog, audit, view, nav, wf>>

(* --------------------------- specification ---------------------------- *)

Next ==
    \/ \E u \in PageUsers : SignIn(u)
    \/ SignOut
    \/ GetUser
    \/ FetchTemplates(Catalog)
    \/ FetchTemplatesFails
    \/ \E i \in InvIds, t \in TemplateIds, tier \in Tiers : HandleDeployNoUser(i, t, tier)
    \/ \E i \in InvIds, t \in TemplateIds, tier \in Tiers : HandleDeployStart(i, t, tier)
    \/ \E i \in InvIds : SendSubscription(i)
    \/ \E i \in InvIds : OnSubscriptionSettled(i)
    \/ \E i \in InvIds : OnDeploySettled(i)
    \/ \E i \in InvIds : BackendCreateSubscription(i)
    \/ \E i \in InvIds : BackendDeploy(i)
    \/ \E i \in InvIds : SubscriptionFetchFails(i)
    \/ \E i \in InvIds : DeployFetchFails(i)
    \/ \E c \in Callers : DirectStatement(c)
    \/ \E old \in deployments, st \in Statuses : ProviderStatusUpdate(old, st)

Spec == Init /\ [][Next]_vars

\* the templates page's mount, over every catalog GET /templates may answer with
CatalogNext ==
    \/ \E u \in PageUsers : SignIn(u)
    \/ SignOut
    \/ GetUser
    \/ \E data \in Catalogs : FetchTemplates(data)
    \/ FetchTemplatesFails
    \/ \E i \in InvIds, t \in TemplateIds, tier \in Tiers : HandleDeployNoUser(i, t, tier)

CatalogSpec == Init /\ [][CatalogNext]_vars

\* navigations of a browser whose session comes and goes
RouteNext ==
    \/ \E u \in PageUsers : SignIn(u)
    \/ SignOut
    \/ \E pathname \in Paths : Navigate(pathname)
    \/ Middleware
    \/ MatcherSkips
    \/ FollowRedirect

RouteSpec == Init /\ [][RouteNext]_vars

\* runs of the backend deploy workflow
WorkflowNext ==
    \/ \E ref \in Refs : Trigger(ref)
    \/ \E result \in {"success", "failure"} : TestJob(result)
    \/ BuildStart
    \/ BuildSkipped
    \/ \E ok \in BOOLEAN : RunStep(ok)
    \/ \E lookupOk \in BOOLEAN : HealthCheckBegin(lookupOk)
    \/ \E curlOk \in BOOLEAN : HealthAttempt(curlOk)
    \/ HealthCheckEnd
    \/ Notify
    \/ BuildEnd
    \/ PostDeployStart
    \/ \E result \in {"success", "failure"} : PostDeployEnd(result)

WorkflowSpec == Init /\ [][WorkflowNext]_vars

\* runs of the local environment test script
ScriptNext ==
    \/ \E env \in Environments : ScriptStart(env)
    \/ ScriptCheck
    \/ ScriptEnd

ScriptSpec == Init /\ [][ScriptNext]_vars

\* one step of invocation i: a continuation of handleDeploy, or the settling of the
\* fetch it awaits (a response of the backend, or a rejection)
InvocationStep(i) ==
    \/ SendSubscription(i)
    \/ OnSubscriptionSettled(i)
    \/ OnDeploySettled(i)
    \/ BackendCreateSubscription(i)
    \/ BackendDeploy(i)
    \/ SubscriptionFetchFails(i)
    \/ DeployFetchFails(i)

\* every awaited promise settles and the event loop runs the continuation
FairSpec == Spec /\ \A i \in InvIds : WF_vars(InvocationStep(i))

\* the store once alice has signed in and deployed notary-assistant/basic from the
\* templates page (one handleDeploy completed with both calls successful)
StoreInit ==
    /\ session = "alice"
    /\ user = "alice"
    /\ deploying = NULL
    /\ inv = [i \in InvIds |->
                IF i = 1
                THEN [pc |-> "done", templateId |-> "notary-assistant", tier |-> "basic",
                      auth |-> AuthHeader("alice"), subReqs |-> 1, depReqs |-> 1,
                      subResp |-> "ok", depResp |-> "ok", url |-> UrlOf(DropletId(1)),
                      alert |-> StartedAlert(UrlOf(DropletId(1)))]
                ELSE IdleInv]
    /\ subscriptions = {SubscriptionRow(SubscriptionId(1), "alice", BillingId(1),
                                        Selector("notary-assistant", "basic"), "active")}
    /\ deployments = {DeploymentRow(DeploymentId(1), "alice", "notary-assistant",
                                    DropletId(1), UrlOf(DropletId(1)), "deploying",
                                    SubscriptionId(1))}
    /\ billing = {BillingId(1)}
    /\ droplets = {DropletId(1)}
    /\ direct = [ins |-> 0, upd |-> 0, denied |-> FALSE]
    /\ polled = 0
    /\ templates = Catalog
    /\ loading = FALSE
    /\ user_profiles = Callers
    /\ update_history = {}
    /\ update_history_id_seq = 0
    /\ view = <<>>
    /\ nav = NoNav
    /\ wf = NoRun
    /\ script = NoScript

\* the statements callers issue against the store, the writers that bypass the
\* policies, and the deployments page
StoreNext ==
    \/ \E c \in Callers : \E row \in deployments : DeleteDeployment(c, row)
    \/ \E c \in Callers : DirectStatement(c)
    \/ \E c \in Callers : \E row \in subscriptions : DeleteSubscription(c, row)
    \/ \E c \in Callers : \E old \in subscriptions :
          UpdateSubscription(c, old, [old EXCEPT !.status = "canceled"])
    \/ \E c \in Callers : \E d \in deployments, details \in HistoryDetails :
          InsertHistory(c, d.id, details)
    \/ \E c \in Callers : \E old \in update_history, details \in HistoryDetails :
          UpdateHistory(c, old, details)
    \/ \E c \in Callers : \E row \in update_history : DeleteHistory(c, row)
    \/ \E id \in {d.id : d \in deployments} \cup {NULL}, details \in HistoryDetails :
          RecordUpdate(id, details)
    \/ \E u \in Callers : DeleteUser(u)
    \/ \E old \in deployments, st \in Statuses : ProviderStatusUpdate(old, st)
    \/ RenderDeployments

StoreSpec == StoreInit /\ [][StoreNext]_vars

(* ------------------------------- claims ------------------------------- *)

\* the caller an invocation's requests are made for
CallerOf(i) == Authenticate(inv[i].auth)

\* the failure condition the backend or the transport returned to invocation i
FailureOf(i) ==
    IF inv[i].subResp # "ok" THEN inv[i].subResp ELSE inv[i].depResp

\* invocation i has completed with a failed /create-subscription or /deploy
Failed(i) ==
    /\ inv[i].pc = "done"
    /\ \/ inv[i].subResp \notin {"none", "ok"}
       \/ inv[i].depResp \notin {"none", "ok"}

\* invocation i has completed with both calls successful
Succeeded(i) ==
    /\ inv[i].pc = "done"
    /\ inv[i].subResp = "ok"
    /\ inv[i].depResp = "ok"

\* C1: every Deployment row corresponds to a provisioning request that the
\* infrastructure provider confirmed (no row without a confirmed resource).
C1_EveryRowConfirmed ==
    \A d \in deployments : d.droplet_id \in droplets

\* C2: in the dashboard flow the /deploy request of an invocation is sent only after
\* its /create-subscription request, for the same selector, returned an ok response;
\* it is never sent when that response is not ok.
C2_DeployOnlyAfterSubscription ==
    \A i \in InvIds :
        inv[i].depReqs > 0 =>
            /\ inv[i].subReqs > 0
            /\ ResponseOk(inv[i].subResp)
            /\ DeployPayload(inv[i]).template_id = SubscriptionPayload(inv[i]).plan_type

C2_Witness ==
    \E i, j \in InvIds :
        /\ inv[i].depReqs = 1 /\ inv[i].subResp = "ok"
        /\ inv[j].pc = "done" /\ inv[j].subResp = "PaymentRejected" /\ inv[j].depReqs = 0

\* C3: the status of a Deployment row changes only along pending->deploying,
\* deploying->{running, failed}, running->{stopped, failed}, in every step.
C3_OnlyStatusEdges ==
    [][\A old \in deployments : \A new \in deployments' :
          (new.id = old.id /\ new.status # old.status)
              => <<old.status, new.status>> \in StatusEdges]_vars

\* C4: what a caller selects through the policies holds only rows whose user_id is
\* the caller, and a statement a caller issues through the policies leaves every
\* Deployment and Subscription row of the other callers as it was.
C4_AuthorizationScoping ==
    [][\A c \in Callers :
          /\ \A r \in SelectDeployments(c)' \cup SelectSubscriptions(c)' : r.user_id = c
          /\ DirectStatement(c) =>
                /\ {r \in deployments' : r.user_id # c} = {r \in deployments : r.user_id # c}
                /\ {r \in subscriptions' : r.user_id # c}
                       = {r \in subscriptions : r.user_id # c}]_vars

C4_Witness ==
    /\ direct.denied
    /\ direct.upd > 0
    /\ \E a, b \in Callers :
          /\ a # b
          /\ SelectDeployments(a) # {}
          /\ SelectDeployments(b) # {}
          /\ SelectDeployments(a) \cap SelectDeployments(b) = {}
          /\ SelectSubscriptions(a) # {}

\* C5: a Deployment row's user_id is the authenticated caller that created it: a row
\* a caller's statement adds or rewrites carries the caller's own id, a row deploy
\* adds carries the id of the bearer of the request, and no step changes the
\* user_id of an existing row.
C5_OwnerIsCreator ==
    [][/\ \A c \in Callers :
             DirectStatement(c) => \A r \in deployments' \ deployments : r.user_id = c
       /\ \A i \in InvIds :
             BackendDeploy(i) => \A r \in deployments' \ deployments : r.user_id = CallerOf(i)
       /\ \A old \in deployments : \A new \in deployments' :
             new.id = old.id => new.user_id = old.user_id]_vars

C5_Witness ==
    /\ direct.denied
    /\ direct.upd > 0
    /\ \E d \in deployments : d.droplet_id = NULL
    /\ \E d \in deployments : d.droplet_id # NULL

\* C6: deploy attempts of one caller for one template are not deduplicated: the
\* schema accepts an owner's INSERT of a Deployment row whatever rows exist, so two
\* rows with the same user_id and template_id can be reached.
C6_NoDeduplication ==
    [][\A c \in Callers, t \in TemplateIds, st \in Statuses :
          InsertDeployment(c, c, t, st, NULL)
              => Cardinality(deployments') = Cardinality(deployments) + 1]_vars

C6_Witness ==
    \E i, j \in InvIds :
        /\ i # j
        /\ Succeeded(i) /\ Succeeded(j)
        /\ inv[i].templateId = inv[j].templateId
        /\ CallerOf(i) = CallerOf(j)
        /\ \E d, e \in deployments :
              /\ d.id # e.id
              /\ d.url = inv[i].url /\ e.url = inv[j].url
              /\ d.user_id = e.user_id
              /\ d.template_id = e.template_id

\* C7: right after createSubscription succeeded for a caller, what that caller
\* selects from subscriptions holds a row with status active and the plan_type
\* of the request.
C7_CreatedSubscriptionListed ==
    [][\A i \in InvIds :
          (BackendCreateSubscription(i) /\ inv'[i].subResp = "ok")
              => \E r \in SelectSubscriptions(CallerOf(i))' :
                    /\ r.status = "active"
                    /\ r.plan_type = SubscriptionPayload(inv[i]).plan_type]_vars

C7_Witness ==
    \E i \in InvIds :
        /\ inv[i].pc = "awaitSub"
        /\ inv[i].subResp = "ok"
        /\ \E r \in SelectSubscriptions(CallerOf(i)) :
              /\ r.status = "active"
              /\ r.plan_type = SubscriptionPayload(inv[i]).plan_type
              /\ r.stripe_subscription_id \in billing

\* C8: once an invocation for a known template and tier has completed with both
\* calls successful, the deployments page lists a row with that template id and
\* status deploying.
C8_EndToEndListed ==
    \A i \in InvIds :
        Succeeded(i) =>
            \E k \in DOMAIN Deployments :
                /\ Deployments[k].template = inv[i].templateId
                /\ Deployments[k].status = "deploying"

\* C9: when /create-subscription or /deploy failed, the alert shown to the user
\* carries the failure condition the backend returned, unchanged.
C9_FailureShownAsIs ==
    \A i \in InvIds :
        Failed(i) => inv[i].alert = ErrorAlert(FailureOf(i))

\* C10: within one invocation /create-subscription is requested at most once and
\* /deploy at most once, and once a failed /create-subscription has been handled the
\* invocation is done with an error alert and no /deploy request.
C10_NoLocalRetry ==
    \A i \in InvIds :
        /\ inv[i].subReqs <= 1
        /\ inv[i].depReqs <= 1
        /\ (inv[i].subResp \notin {"none", "ok"} /\ inv[i].pc # "awaitSub")
              => /\ inv[i].pc = "done"
                 /\ inv[i].depReqs = 0
                 /\ inv[i].alert = ErrorAlert(SubscriptionError(inv[i].subResp))

C10_Witness ==
    \E i, j \in InvIds :
        /\ inv[i].pc = "done" /\ inv[i].subResp = "PaymentRejected"
        /\ inv[i].subReqs = 1 /\ inv[i].depReqs = 0
        /\ inv[j].pc = "done" /\ inv[j].depResp = "ProvisioningFailed"
        /\ inv[j].subReqs = 1 /\ inv[j].depReqs = 1

\* invocation i is between its start and its finally block
InFlight(i) == inv[i].pc \in {"getSession", "awaitSub", "awaitDeploy"}

\* the /deploy request of invocation i has been sent and has not been answered
DeployPending(i) == inv[i].pc = "awaitDeploy" /\ inv[i].depResp = "none"

\* C11: when /create-subscription succeeded and the following /deploy failed, the
\* Subscription the invocation created is still there, active, with its billing
\* record, at every later state: nothing rolls it back.
C11_SubscriptionOutlivesFailedDeploy ==
    \A i \in InvIds :
        (inv[i].subResp = "ok" /\ inv[i].depResp \notin {"none", "ok"})
            => \E s \in subscriptions :
                  /\ s.user_id = CallerOf(i)
                  /\ s.plan_type = SubscriptionPayload(inv[i]).plan_type
                  /\ s.status = "active"
                  /\ s.stripe_subscription_id \in billing

C11_Witness ==
    \E i \in InvIds :
        /\ Failed(i)
        /\ inv[i].subResp = "ok"
        /\ inv[i].depResp = "ProvisioningFailed"
        /\ \E s \in subscriptions :
              /\ s.user_id = CallerOf(i)
              /\ s.status = "active"
              /\ s.stripe_subscription_id \in billing
              /\ ~\E d \in deployments : d.subscription_id = s.id

\* C12: every /create-subscription and /deploy request carries `Bearer <token>` with
\* the access token of a session of the identity provider, never a missing or
\* undefined token, and both requests of one invocation carry the same header.
C12_BearerIsSessionToken ==
    \A i \in InvIds :
        (inv[i].subReqs > 0 \/ inv[i].depReqs > 0)
            => \E u \in Callers : inv[i].auth = "Bearer " \o AccessToken(u)

\* C18: once the /deploy request of an invocation has been sent, no step of the page
\* or of a caller (sign-out, another deploy started or finished, a direct statement)
\* withdraws it: it stays pending until the backend answers it or the transport fails.
C18_NoCancellation ==
    [][\A i \in InvIds :
          DeployPending(i)
              => \/ DeployPending(i)'
                 \/ BackendDeploy(i)
                 \/ DeployFetchFails(i)]_vars

C18_Witness ==
    \E i, j \in InvIds :
        /\ i # j
        /\ session = NULL
        /\ InFlight(j)
        /\ inv[i].pc = "awaitDeploy"
        /\ inv[i].depResp = "ok"
        /\ deploying # inv[i].templateId
        /\ \E d \in deployments : d.url = inv[i].url /\ d.user_id = CallerOf(i)

\* C20: whenever a handleDeploy invocation for a template is in flight, the Deploy
\* buttons of that template are disabled, so no two invocations for one template
\* are in flight together.
C20_InFlightButtonDisabled ==
    /\ \A i \in InvIds : InFlight(i) => ButtonDisabled(inv[i].templateId)
    /\ \A i, j \in InvIds :
          (i # j /\ InFlight(i) /\ InFlight(j)) => inv[i].templateId # inv[j].templateId

C13_HistoryAppendOnlyNeverOrphaned ==
    [][/\ \A h \in update_history' : \E d \in deployments' : d.id = h.deployment_id
       /\ \A h \in update_history :
             \/ h \in update_history'
             \/ /\ ~\E g \in update_history' : g.id = h.id
                /\ ~\E d \in deployments' : d.id = h.deployment_id]_vars

\* C14: a Subscription row is never hard-deleted: a row that is in the store is still
\* there after every step, the same but possibly for its status.
C14_SubscriptionNeverDeleted ==
    [][\A s \in subscriptions :
          \E t \in subscriptions' : t = [s EXCEPT !.status = t.status]]_vars

\* C15: the owning caller's DELETE of their own Deployment row succeeds: the row is
\* absent afterwards.
C15_OwnerDeleteSucceeds ==
    [][\A c \in Callers : \A row \in deployments :
          (row.user_id = c /\ DeleteDeployment(c, row))
              => ~\E d \in deployments' : d.id = row.id]_vars

\* C16: the deployments page shows listDeployments(caller): exactly the rows the
\* signed-in caller owns, newest first.
C16_PageShowsListing ==
    [][RenderDeployments =>
          LET listed == ListDeployments(session)'
          IN [k \in DOMAIN view' |-> <<view'[k].url, view'[k].status>>]
                 = [k \in DOMAIN listed |-> <<listed[k].url, listed[k].status>>]]_vars

\* C17: a render of the deployments page that follows a status change of a Deployment
\* row shows every row of the signed-in caller with the status it has in the store.
C17_RefreshReflectsStatus ==
    [][(RenderDeployments /\ polled > 0) =>
          \A d \in SelectDeployments(session)' :
              \E k \in DOMAIN view' : view'[k].url = d.url /\ view'[k].status = d.status]_vars

\* C21: every handleDeploy invocation that passed the signed-in check completes and
\* resets deploying to null, whatever the outcome of its calls; while no invocation
\* is in flight the page is not in the 'Deploying...' state.
C21_DeployingReset ==
    /\ [](~(\E i \in InvIds : InFlight(i)) => deploying = NULL)
    /\ \A i \in InvIds : InFlight(i) ~> (inv[i].pc = "done" /\ deploying = NULL)

C21_Witness ==
    \E i, j \in InvIds :
        /\ inv[i].pc = "done" /\ inv[i].subResp = "TransportError"
        /\ Succeeded(j)
        /\ deploying = NULL

\* C22: handleDeploy called while user is null sends no request to
\* /create-subscription or /deploy and leaves deploying as it was.
C22_NoUserNoRequest ==
    [][\A i \in InvIds, t \in TemplateIds, tier \in Tiers :
          HandleDeployNoUser(i, t, tier)
              => /\ deploying' = deploying
                 /\ inv'[i].pc = "done"
                 /\ inv'[i].subReqs = 0 /\ inv'[i].depReqs = 0
                 /\ \A j \in InvIds : j # i => inv'[j] = inv[j]]_vars

C22_Witness ==
    \E i, j \in InvIds :
        /\ inv[i].alert = SignInAlert
        /\ inv[i].pc = "done"
        /\ inv[i].subReqs = 0 /\ inv[i].depReqs = 0
        /\ InFlight(j)
        /\ deploying = inv[j].templateId

\* C24: referential integrity holds after every step: each deployments.subscription_id
\* is NULL or the id of an existing subscription, each update_history.deployment_id is
\* NULL or the id of an existing deployment, and the deletion of a user profile
\* removes that user's subscriptions and deployments and the update_history rows of
\* those deployments, while a Deployment of another user that was linked to a removed
\* subscription is kept with its link set to NULL.
C24_ReferentialIntegrity ==
    [][/\ \A d \in deployments' :
             d.subscription_id = NULL \/ \E t \in subscriptions' : t.id = d.subscription_id
       /\ \A h \in update_history' :
             h.deployment_id = NULL \/ \E d \in deployments' : d.id = h.deployment_id
       /\ \A u \in Callers :
             DeleteUser(u) =>
                /\ ~\E t \in subscriptions' : t.user_id = u
                /\ ~\E d \in deployments' : d.user_id = u
                /\ \A h \in update_history :
                      (\E d \in deployments : d.id = h.deployment_id /\ d.user_id = u)
                          => h \notin update_history'
                /\ \A d \in deployments :
                      d.user_id # u =>
                          \E e \in deployments' :
                              /\ e.id = d.id
                              /\ e.subscription_id \in {d.subscription_id, NULL}]_vars

C24_Witness ==
    /\ "alice" \notin user_profiles
    /\ subscriptions = {}
    /\ update_history_id_seq = MaxHistory
    /\ update_history = {}
    /\ direct.upd > 0
    /\ \E d \in deployments : d.user_id = "bob" /\ d.subscription_id = NULL

\* C25: a Deployment row with a non-NULL subscription_id references a Subscription
\* of the same user_id: no caller's INSERT or UPDATE links a Deployment to another
\* caller's Subscription.
C25_LinkedSubscriptionSameOwner ==
    \A d \in deployments :
        d.subscription_id # NULL
            => \E t \in subscriptions : t.id = d.subscription_id /\ t.user_id = d.user_id

\* C23 (as stated): without a session the middleware lets a request through only
\* when its path is '/' or starts with '/login', '/signup' or '/auth/callback', and
\* every other path without a session is redirected to '/login'; with a session no
\* request is redirected; following the redirect does not loop.
C23_EveryOtherPathRedirected ==
    [][(nav.outcome = "pending" /\ nav'.outcome # "pending") =>
          /\ (session = NULL /\ nav'.outcome # "redirect")
                => (nav.path = Root \/ IsPublicRoute(nav.path))
          /\ (session = NULL /\ ~(nav.path = Root \/ IsPublicRoute(nav.path)))
                => nav'.outcome = "redirect"
          /\ session # NULL => nav'.outcome # "redirect"
          /\ nav'.redirects <= 1]_vars

\* C23 (amended): for the requests config.matcher hands to the middleware, without a
\* session a request passes only when its path is '/' or starts with '/login',
\* '/signup' or '/auth/callback' and every other one is redirected to '/login'; with
\* a session no request is redirected; following the redirect does not loop.
C23_MatchedPathsRedirected ==
    [][(nav.outcome = "pending" /\ nav'.outcome # "pending") =>
          /\ (session = NULL /\ nav'.outcome = "next")
                => (nav.path = Root \/ IsPublicRoute(nav.path))
          /\ (session = NULL /\ MatcherMatches(nav.path)
                /\ ~(nav.path = Root \/ IsPublicRoute(nav.path)))
                => nav'.outcome = "redirect"
          /\ session # NULL => nav'.outcome # "redirect"
          /\ nav'.redirects <= 1
          /\ nav'.outcome = "unmatched" <=> ~MatcherMatches(nav.path)]_vars

C23_Witness ==
    /\ session = NULL
    /\ nav.path = LoginPath
    /\ nav.outcome = "next"
    /\ nav.redirects = 1

\* C26: build-and-deploy starts only after test has succeeded; post-deploy starts only
\* after build-and-deploy has succeeded and only on refs/heads/main; main runs in
\* environment production with stack ai-stack-platform, any other ref in staging with
\* stack ai-stack-platform-staging.
C26_JobOrderAndEnvironment ==
    /\ wf.build \in {"in_progress", "success", "failure"} => wf.test = "success"
    /\ wf.post \in {"in_progress", "success", "failure"}
          => (wf.build = "success" /\ wf.ref = "refs/heads/main")
    /\ wf.environment # NULL
          => wf.environment = IF wf.ref = "refs/heads/main" THEN "production" ELSE "staging"
    /\ wf.STACK_NAME # NULL
          => IF wf.ref = "refs/heads/main"
             THEN wf.ENVIRONMENT = "production" /\ wf.STACK_NAME = "ai-stack-platform"
             ELSE wf.ENVIRONMENT = "staging" /\ wf.STACK_NAME = "ai-stack-platform-staging"

C26_Witness ==
    /\ wf.ref = "refs/heads/main"
    /\ wf.test = "success"
    /\ wf.build = "success"
    /\ wf.post = "success"
    /\ wf.environment = "production"
    /\ wf.STACK_NAME = "ai-stack-platform"

\* C27: the health check tries /health at most 5 times and stops at the first success;
\* when none of the 5 attempts succeeds the step fails and build-and-deploy does not
\* end with status success.
C27_HealthCheckFailsJob ==
    /\ wf.attempts <= 5
    /\ wf.health = "passed" => wf.healthStep \in {"none", "success"}
    /\ wf.health = "exhausted"
          => /\ wf.attempts = 5
             /\ wf.healthStep = "failure"
             /\ wf.build # "success"
             /\ wf.notified # "success"

\* the checks that passed, in the environment the script runs in
ScriptEnvironmentGood(env) ==
    /\ env.health = "healthy"
    /\ env.templates \in {"1", "3"}
    /\ env.frontend = "200"
    /\ env.database = <<"1", " ", "(", "1", " ", "r", "o", "w", ")">>

\* C28: the script runs its checks in the order health, templates, frontend,
\* database; it exits 1 at the first failing check and runs none after it; it prints
\* 'All local tests passed!' only when /health reported healthy, /templates gave more
\* than zero templates, the frontend answered 200 and the database query succeeded.
C28_ScriptOrderAndExit ==
    /\ script.ran = SubSeq(ScriptChecks, 1, Len(script.ran))
    /\ script.passed => (ScriptEnvironmentGood(script.env) /\ script.exit = 0
                         /\ script.ran = ScriptChecks)
    /\ (script.status = "exited" /\ script.exit = 1)
          => /\ script.ran # <<>>
             /\ ~script.passed
             /\ ~ScriptEnvironmentGood(script.env)
    /\ (script.status = "exited" /\ ~ScriptEnvironmentGood(script.env)) => script.exit = 1
    /\ (script.status # "none" /\ script.env.health # "healthy") => Len(script.ran) <= 1
    /\ (script.status # "none" /\ script.env.templates \in {"", "0"}) => Len(script.ran) <= 2
    /\ (script.status # "none" /\ script.env.frontend # "200") => Len(script.ran) <= 3

C28_Witness ==
    /\ script.status = "exited"
    /\ script.exit = 1
    /\ script.ran = <<"health", "templates">>
    /\ script.env.templates = ""
    /\ script.env.frontend = "200"

====
